---- MODULE Spec2Model ----
(***************************************************************************)
(* The entity scripts of hifi-tutorial as state machines driven by the     *)
(* host engine: every handler the host can invoke is one action, the host  *)
(* objects the handlers read and write (MyAvatar, Audio, HMD, Controller,  *)
(* Entities, Overlays, Script timers, Messages) are the state.             *)
(*                                                                         *)
(* The scripts run in separate script engines and share no variables, so   *)
(* each family of scripts has a specification of its own:                  *)
(*   SpecToggle  movementToggle.js (both versions) and muteToggle.js       *)
(*   SpecZone    zoneItemMarket / Movement / Bubble / Places               *)
(*   SpecTrigger replaceAvatar.js and the tutorial entryPortal.js          *)
(*   SpecCDM     ControllerDisplayManager                                  *)
(*   SpecPortal  the portal script                                         *)
(*   SpecUtils   assets/tutorial/utils.js                                  *)
(*   SpecCube    spawnOrangeCube.js                                        *)
(* SpecToggleFair and SpecCDMFair add the host running the timers.         *)
(***************************************************************************)
EXTENDS Integers, Sequences, FiniteSets, TLC

VARIABLES
    event,        \* the handler the host invoked last and what it was given
    \* ---- movementToggle.js
    mtLoaded,     \* preload has run
    isActive,     \* movementToggle.js:17, a JS value
    mtCanChange,  \* movementToggle.js:18
    mtTimers,     \* outstanding Script.setTimeout callbacks of movementToggle
    advMove,      \* MyAvatar.useAdvancedMovementControls
    signTexture,  \* the "file1" texture of the sign entity
    \* ---- muteToggle.js
    muCanChange,  \* part_003:217
    muTimers,     \* outstanding Script.setTimeout callbacks of muteToggle
    audioMuted,   \* Audio.muted
    \* ---- host devices
    hmdActive,    \* HMD.active
    riftAvailable,\* HMD.isHMDAvailable("Oculus Rift"): the plugin is installed or not
    gamePad,      \* Controller.Hardware.GamePad is defined
    downloaded,   \* the downloaded flag of every sound object
    \* ---- the four zone-item scripts, each in its own copy of the world
    zoneLoaded,   \* preload has run
    nearby,       \* the entities Entities.findEntities(position, 10) reports
    inside,       \* the avatar is inside the zone
    enters,       \* the number of enterEntity events so far
    desktopEntities, gamePadEntities, viveEntities, riftEntities,
    overlayUrl,   \* WEB_OVERLAY_BASE_PROPERTIES.url
    webGifOverlay,
    audioPlaying,
    visible,      \* the visible property of every entity
    overlays,     \* the overlays that exist
    injectors,    \* the audio injectors that were started
    calls,        \* the host calls of the handler that ran last
    \* ---- ControllerDisplayManager (part_001)
    viveHardware,     \* "Vive" in Controller.Hardware
    controllerLeft,   \* part_001:47
    controllerRight,  \* part_001:48
    controllerCheckerIntervalID,  \* part_001:49
    intervals,        \* the intervals of Script.setInterval that are active
    connected,        \* handleMessages is connected to Messages.messageReceived
    subscribed,       \* the channels of Messages.subscribe
    ovVisible,        \* the visible flag of every overlay of the displays
    partLayer,        \* the layer of the part overlay of each display
    dispVisible,      \* what setVisible was last given, per display
    cdmCalls,         \* the host calls of the manager's handler that ran last
    \* ---- the earlier movementToggle.js (part_002), which keeps the setting
    \* in the menu and reads it from Settings
    omLoaded,         \* preload has run
    omIsActive,       \* part_002:19  var isActive
    omCanChange,      \* part_002:20  var canChange
    omTimers,         \* the outstanding Script.setTimeout callbacks
    menuChecked,      \* Menu option "Advanced Movement For Hand Controllers"
    settingsValue,    \* Settings value advancedMovementForHandControllersIsChecked
    omSignTexture,    \* the file1 texture of the sign
    \* ---- replaceAvatar.js and the tutorial entryPortal.js
    avatarUrl,        \* the URL MyAvatar.useFullAvatarURL was last given
    teleport,         \* assets/tutorial/entryPortal.js:2
    location,         \* where the avatar is
    zoneNotified,     \* the calls of onEnteredEntryPortal on the tutorial zone
    trigCalls,        \* the host calls of the handler that ran last
    \* ---- the portal script (part_000)
    portalDestination, \* part_000:2  var portalDestination
    userData,          \* the userData property of the portal entity
    windowLocation,    \* Window.location
    locationAssigned,  \* the handler that ran last assigned Window.location
    \* ---- assets/tutorial/utils.js
    uWorld,            \* the properties of the entities the host knows
    uArgs,             \* the arguments of the call that ran last
    uResult,           \* what that call returned or threw
    \* ---- spawnOrangeCube.js
    spawnCubeInterval, \* spawnOrangeCube.js:16  var spawnCubeInterval
    cubeIntervals,     \* the active Script.setInterval timers of the script
    cubesAdded,        \* the Entities.addEntity calls made so far
    preloads,          \* the preload calls made so far
    unloaded           \* unload has run and preload has not run since

omVars == <<omLoaded, omIsActive, omCanChange, omTimers, menuChecked, settingsValue,
            omSignTexture>>

toggleVars == <<mtLoaded, isActive, mtCanChange, mtTimers, advMove, signTexture,
                muCanChange, muTimers, audioMuted, omVars>>

deviceVars == <<hmdActive, riftAvailable, gamePad, downloaded>>

zoneVars == <<zoneLoaded, nearby, inside, enters, desktopEntities, gamePadEntities, viveEntities,
              riftEntities, overlayUrl, webGifOverlay, audioPlaying, visible, overlays,
              injectors, calls>>

cdmVars == <<viveHardware, controllerLeft, controllerRight, controllerCheckerIntervalID,
             intervals, connected, subscribed, ovVisible, partLayer, dispVisible,
             cdmCalls>>

trigVars == <<avatarUrl, teleport, location, zoneNotified, trigCalls>>

portalVars == <<portalDestination, userData, windowLocation, locationAssigned>>

utilVars == <<uWorld, uArgs, uResult>>

cubeVars == <<spawnCubeInterval, cubeIntervals, cubesAdded, preloads, unloaded>>

vars == <<event, toggleVars, deviceVars, zoneVars, cdmVars, trigVars, portalVars,
          utilVars, cubeVars>>

(***************************************************************************)
(* JavaScript values                                                       *)
(***************************************************************************)
UNDEFINED == "undefined"

\* the value of a JS boolean
JsBool(b) == IF b THEN "true" ELSE "false"

\* !v : undefined is falsy
JsNot(v) == IF v = "true" THEN "false" ELSE "true"

\* the host invokes handler `op`; `arg` is what the handler is given or finds
Event(op, arg) == [op |-> op, arg |-> arg]

(***************************************************************************)
(* movementToggle.js                                                       *)
(***************************************************************************)
TIMEOUT == 1000

\* switchSignTexture(enabled): the texture written to the sign
switchSignTexture(enabled) ==
    IF enabled = "true" THEN "ENABLED_TEXTURE" ELSE "DISABLED_TEXTURE"

\* preload(entityID)
MtPreload ==
    /\ ~mtLoaded
    /\ mtLoaded' = TRUE
    /\ isActive' = JsBool(advMove)
    /\ signTexture' = switchSignTexture(JsBool(advMove))
    /\ event' = Event("mtPreload", "")
    /\ UNCHANGED <<mtCanChange, mtTimers, advMove, muCanChange, muTimers, audioMuted,
                   omVars>>

\* mousePressOnEntity without its guard
MtAccepts_NoDebounce == TRUE

\* the guard of mousePressOnEntity
MtAccepts == mtCanChange

\* mousePressOnEntity(): the debounced switch
MtPress ==
    /\ mtLoaded
    /\ event' = Event("mtPress", JsBool(mtCanChange))
    /\ IF MtAccepts
       THEN /\ mtCanChange' = FALSE
            \* switchControlMechanics()
            /\ isActive' = JsNot(isActive)
            /\ advMove' = (JsNot(isActive) = "true")
            /\ signTexture' = switchSignTexture(JsNot(isActive))
            \* Script.setTimeout(..., TIMEOUT)
            /\ mtTimers' = mtTimers + 1
       ELSE UNCHANGED <<mtCanChange, isActive, advMove, signTexture, mtTimers>>
    /\ UNCHANGED <<mtLoaded, muCanChange, muTimers, audioMuted,
                   omVars>>

\* a timeout callback that leaves canChange as it is
MtTimeout_KeepsDisabled ==
    /\ mtTimers > 0
    /\ mtTimers' = mtTimers - 1
    /\ event' = Event("mtTimeout", "")
    /\ UNCHANGED <<mtLoaded, isActive, mtCanChange, advMove, signTexture, muCanChange,
                   muTimers, audioMuted, omVars>>

\* the host runs the timeout callback: canChange = true
MtTimeout ==
    /\ mtTimers > 0
    /\ mtTimers' = mtTimers - 1
    /\ mtCanChange' = TRUE
    /\ event' = Event("mtTimeout", "")
    /\ UNCHANGED <<mtLoaded, isActive, advMove, signTexture, muCanChange, muTimers, audioMuted,
                   omVars>>

\* the user (or another script) changes the avatar setting outside this script
HostSetAdvancedMovement ==
    /\ advMove' = ~advMove
    /\ event' = Event("hostSetAdvancedMovement", "")
    /\ UNCHANGED <<mtLoaded, isActive, mtCanChange, mtTimers, signTexture,
                   muCanChange, muTimers, audioMuted,
                   omVars>>

(***************************************************************************)
(* muteToggle.js                                                           *)
(***************************************************************************)
\* the guard of mousePressOnEntity
MuAccepts == muCanChange

\* mousePressOnEntity()
MuPress ==
    /\ event' = Event("muPress", JsBool(muCanChange))
    /\ IF MuAccepts
       THEN /\ muCanChange' = FALSE
            /\ audioMuted' = ~audioMuted
            /\ muTimers' = muTimers + 1
       ELSE UNCHANGED <<muCanChange, audioMuted, muTimers>>
    /\ UNCHANGED <<mtLoaded, isActive, mtCanChange, mtTimers, advMove, signTexture,
                   omVars>>

\* the host runs the timeout callback: canChange = true
MuTimeout ==
    /\ muTimers > 0
    /\ muTimers' = muTimers - 1
    /\ muCanChange' = TRUE
    /\ event' = Event("muTimeout", "")
    /\ UNCHANGED <<mtLoaded, isActive, mtCanChange, mtTimers, advMove, signTexture, audioMuted,
                   omVars>>

\* the user mutes or unmutes through the host's own interface
HostSetMuted ==
    /\ audioMuted' = ~audioMuted
    /\ event' = Event("hostSetMuted", "")
    /\ UNCHANGED <<mtLoaded, isActive, mtCanChange, mtTimers, advMove, signTexture,
                   muCanChange, muTimers,
                   omVars>>

(***************************************************************************)
(* The earlier movementToggle.js (part_002): the setting is the menu       *)
(* option, read at preload from Settings                                   *)
(***************************************************************************)
\* what Settings.getValue(SETTINGS_NAME) may return: the stored boolean, or
\* the empty string when the setting was never stored
SettingsValues == {"true", "false", ""}

\* preload(entityID)
OmPreload ==
    /\ ~omLoaded
    /\ omLoaded' = TRUE
    /\ omIsActive' = settingsValue
    /\ omSignTexture' = switchSignTexture(settingsValue)
    /\ event' = Event("omPreload", settingsValue)
    /\ UNCHANGED <<omCanChange, omTimers, menuChecked, settingsValue>>

\* the guard of mousePressOnEntity
OmAccepts == omCanChange

\* mousePressOnEntity(): the debounced switch
OmPress ==
    /\ omLoaded
    /\ event' = Event("omPress", JsBool(omCanChange))
    /\ IF OmAccepts
       THEN /\ omCanChange' = FALSE
            \* switchControlMechanics()
            /\ omIsActive' = JsNot(omIsActive)
            /\ menuChecked' = (JsNot(omIsActive) = "true")
            /\ omSignTexture' = switchSignTexture(JsNot(omIsActive))
            \* Script.setTimeout(..., TIMEOUT)
            /\ omTimers' = omTimers + 1
       ELSE UNCHANGED <<omCanChange, omIsActive, menuChecked, omSignTexture, omTimers>>
    /\ UNCHANGED <<omLoaded, settingsValue>>

\* the host runs the timeout callback: canChange = true
OmTimeout ==
    /\ omTimers > 0
    /\ omTimers' = omTimers - 1
    /\ omCanChange' = TRUE
    /\ event' = Event("omTimeout", "")
    /\ UNCHANGED <<omLoaded, omIsActive, menuChecked, settingsValue, omSignTexture>>

\* the user checks or unchecks the menu option in the host's menu
HostSetMenuOption ==
    /\ menuChecked' = ~menuChecked
    /\ event' = Event("hostSetMenuOption", "")
    /\ UNCHANGED <<omLoaded, omIsActive, omCanChange, omTimers, settingsValue, omSignTexture>>

\* what the earlier movementToggle.js leaves alone
OmFrame ==
    UNCHANGED <<mtLoaded, isActive, mtCanChange, mtTimers, advMove, signTexture,
                muCanChange, muTimers, audioMuted>>

(***************************************************************************)
(* The zone-item scripts: zoneItemMarket.js, zoneItemMovement.js,          *)
(* zoneItemBubble.js, zoneItemPlaces.js.  The four scripts are driven side *)
(* by side by the same host events, each in its own copy of the world, so  *)
(* every zone variable is a function of the script.                        *)
(***************************************************************************)
MaxEnters == 2

Scripts == {"Market", "Movement", "Bubble", "Places"}

\* the entities Entities.findEntities can report, in the host's order
EntityOrder == <<"e1", "e2", "e3", "e4">>

Entities == {EntityOrder[i] : i \in 1..Len(EntityOrder)}

\* the worlds the zone items are placed in: the first n entities are within
\* the radius of findEntities
NearbyWorlds == {{EntityOrder[i] : i \in 1..n} : n \in 0..Len(EntityOrder)}

\* the identifiers the name of each entity contains: e1 is named like
\* "Sign-Desktop-Gamepad", e2 "Sign-Gamepad", e3 "Sign-Vive", e4 "Sign-Rift"
NameContains ==
    [e \in Entities |->
        CASE e = "e1" -> {"-Desktop", "-Gamepad"}
          [] e = "e2" -> {"-Gamepad"}
          [] e = "e3" -> {"-Vive"}
          [] OTHER    -> {"-Rift"}]

\* the sounds of the zone items: SOUND in Market and Movement, HMD_SOUND and
\* DESKTOP_SOUND in Bubble and Places
ZoneSounds == {"SOUND", "HMD_SOUND", "DESKTOP_SOUND"}

\* the host call f(a1, a2) as a handler makes it
Call(api, a1, a2) == [api |-> api, a1 |-> a1, a2 |-> a2]

\* the if / else-if chain of enterEntity: the list an entity is pushed to
ListOf(e) ==
    IF "-Desktop" \in NameContains[e] THEN "desktop"
    ELSE IF "-Gamepad" \in NameContains[e] THEN "gamepad"
    ELSE IF "-Vive" \in NameContains[e] THEN "vive"
    ELSE IF "-Rift" \in NameContains[e] THEN "rift"
    ELSE "none"

\* nearbyEntities.forEach: the nearby entities pushed to list `l`, in host order
Pushed(l) ==
    SelectSeq(EntityOrder, LAMBDA e : e \in nearby /\ ListOf(e) = l)

\* setDisplayType / showPanelsForDesktop / showPanelsForVR: the branch taken
\* with HMD.active = h, HMD.isHMDAvailable("Oculus Rift") = r and
\* Controller.Hardware.GamePad defined = g
DisplayClass(h, r, g) ==
    IF ~h
    THEN IF g THEN "desktop+gamepad" ELSE "desktop"
    ELSE IF r
         THEN IF g THEN "rift+gamepad" ELSE "rift"
         ELSE "vive"

\* showPanelsForVR showing the Rift list as well when a gamepad is present
ShownLists_RiftWithGamepad(cls) ==
    CASE cls = "desktop+gamepad" -> <<"desktop", "gamepad">>
      [] cls = "desktop"         -> <<"desktop">>
      [] cls = "rift+gamepad"    -> <<"gamepad", "rift">>
      [] cls = "rift"            -> <<"rift">>
      [] OTHER                   -> <<"vive">>

\* the lists the branch makes visible, in the order of the forEach loops
ShownLists(cls) ==
    CASE cls = "desktop+gamepad" -> <<"desktop", "gamepad">>
      [] cls = "desktop"         -> <<"desktop">>
      [] cls = "rift+gamepad"    -> <<"gamepad">>
      [] cls = "rift"            -> <<"rift">>
      [] OTHER                   -> <<"vive">>

\* webOverlayProperties.url = ... of the branch
GifUrl(cls) ==
    CASE cls = "desktop+gamepad" -> "GIF_GAMEPAD_URL"
      [] cls = "desktop"         -> "GIF_DESKTOP_URL"
      [] cls = "rift+gamepad"    -> "GIF_GAMEPAD_URL"
      [] cls = "rift"            -> "GIF_RIFT_URL"
      [] OTHER                   -> "GIF_VIVE_URL"

\* the first argument of Overlays.addOverlay in the branch: zoneItemMovement
\* passes the properties object where the type belongs (part_003:71)
OverlayTypeArg(s, cls) ==
    IF s = "Movement" /\ cls = "desktop+gamepad" THEN "[object Object]" ELSE "web3d"

\* the second argument of Overlays.addOverlay: the url of the properties
\* object, or nothing at part_003:71
OverlayPropsArg(s, cls) ==
    IF s = "Movement" /\ cls = "desktop+gamepad" THEN UNDEFINED ELSE GifUrl(cls)

\* the method hideAllElements calls on Overlays: zoneItemBubble calls
\* Overlays.deleteEntity, which the Overlays interface does not have
DeleteMethod(s) == IF s = "Bubble" THEN "deleteEntity" ELSE "deleteOverlay"

\* enterEntity choosing the narration without looking at HMD.active
EnterSound_IgnoresHmd(s, h) ==
    IF s \in {"Bubble", "Places"} THEN "DESKTOP_SOUND" ELSE "SOUND"

\* the sound enterEntity chooses with HMD.active = h
EnterSound(s, h) ==
    IF s \in {"Bubble", "Places"}
    THEN IF h THEN "HMD_SOUND" ELSE "DESKTOP_SOUND"
    ELSE "SOUND"

\* JS truthiness of a stored value
Truthy(v) == v \notin {UNDEFINED, "", "null", "false"}

RECURSIVE Flatten(_)
Flatten(ss) == IF ss = <<>> THEN <<>> ELSE Head(ss) \o Flatten(Tail(ss))

\* the elements of a sequence
Range(q) == {q[i] : i \in 1..Len(q)}

\* the list of script s by name
ListNamed(s, l, dE, gE, vE, rE) ==
    CASE l = "desktop" -> dE[s]
      [] l = "gamepad" -> gE[s]
      [] l = "vive"    -> vE[s]
      [] OTHER         -> rE[s]

\* makeVisible / makeInvisible over a sequence of entities
EditCalls(es, v) == [i \in 1..Len(es) |-> Call("editEntity", es[i], JsBool(v))]

\* preload(entityID): position = ...
ZonePreload ==
    /\ ~zoneLoaded
    /\ zoneLoaded' = TRUE
    /\ calls' = [s \in Scripts |-> <<>>]
    /\ event' = Event("zonePreload", "")
    /\ UNCHANGED <<nearby, inside, enters, desktopEntities, gamePadEntities,
                   viveEntities, riftEntities, overlayUrl, webGifOverlay, audioPlaying,
                   visible, overlays, injectors, deviceVars>>

\* enterEntity(), the avatar entering with the headset worn or not (h) and a
\* gamepad plugged or not (g), as the handler finds them
ZoneEnter(h, g) ==
    LET cls == DisplayClass(h, riftAvailable, g)
        dE == [s \in Scripts |-> desktopEntities[s] \o Pushed("desktop")]
        gE == [s \in Scripts |-> gamePadEntities[s] \o Pushed("gamepad")]
        vE == [s \in Scripts |-> viveEntities[s] \o Pushed("vive")]
        rE == [s \in Scripts |-> riftEntities[s] \o Pushed("rift")]
        shown(s) == Flatten([i \in 1..Len(ShownLists(cls)) |->
                                ListNamed(s, ShownLists(cls)[i], dE, gE, vE, rE)])
        \* Overlays.addOverlay: an overlay exists only for a known type
        made(s) == OverlayTypeArg(s, cls) = "web3d"
        ovId == "ov" \o ToString(enters + 1)
        injId == "inj" \o ToString(enters + 1)
        snd(s) == EnterSound(s, h)
        plays(s) == downloaded[snd(s)]
    IN  /\ zoneLoaded
        /\ enters < MaxEnters
        /\ enters' = enters + 1
        /\ inside' = TRUE
        /\ desktopEntities' = dE
        /\ gamePadEntities' = gE
        /\ viveEntities' = vE
        /\ riftEntities' = rE
        /\ visible' = [s \in Scripts |-> [e \in Entities |->
                          IF e \in Range(shown(s)) THEN TRUE ELSE visible[s][e]]]
        /\ overlayUrl' = [s \in Scripts |-> GifUrl(cls)]
        /\ overlays' = [s \in Scripts |->
              IF made(s)
              THEN overlays[s] \cup {[id |-> ovId, type |-> "web3d", url |-> GifUrl(cls),
                                      base |-> s]}
              ELSE overlays[s]]
        /\ webGifOverlay' = [s \in Scripts |-> IF made(s) THEN ovId ELSE "null"]
        /\ injectors' = [s \in Scripts |->
              IF plays(s)
              THEN injectors[s] \cup {[id |-> injId, sound |-> snd(s), playing |-> TRUE]}
              ELSE injectors[s]]
        /\ audioPlaying' = [s \in Scripts |-> IF plays(s) THEN injId ELSE audioPlaying[s]]
        /\ calls' = [s \in Scripts |->
              EditCalls(shown(s), TRUE)
              \o <<Call("addOverlay", OverlayTypeArg(s, cls), OverlayPropsArg(s, cls))>>
              \o (IF plays(s)
                  THEN <<Call("playSound", snd(s), JsBool(downloaded[snd(s)]))>>
                  ELSE <<>>)]
        /\ hmdActive' = h
        /\ gamePad' = g
        /\ event' = Event("enterEntity", "")
        /\ UNCHANGED <<zoneLoaded, nearby, riftAvailable, downloaded>>

\* leaveEntity(): hideAllElements(), then audioPlaying.stop()
ZoneLeave ==
    LET hidden(s) == desktopEntities[s] \o viveEntities[s] \o gamePadEntities[s]
                     \o riftEntities[s]
        \* calling a method Overlays does not have throws a TypeError, which
        \* ends the handler
        throws(s) == DeleteMethod(s) # "deleteOverlay"
        stops(s) == ~throws(s) /\ Truthy(audioPlaying[s])
    IN  /\ inside
        /\ inside' = FALSE
        /\ visible' = [s \in Scripts |-> [e \in Entities |->
                          IF e \in Range(hidden(s)) THEN FALSE ELSE visible[s][e]]]
        /\ overlays' = [s \in Scripts |->
              IF throws(s) THEN overlays[s]
              ELSE {o \in overlays[s] : o.id # webGifOverlay[s]}]
        /\ webGifOverlay' = [s \in Scripts |->
              IF throws(s) THEN webGifOverlay[s] ELSE ""]
        /\ injectors' = [s \in Scripts |->
              IF stops(s)
              THEN {IF j.id = audioPlaying[s] THEN [j EXCEPT !.playing = FALSE] ELSE j
                      : j \in injectors[s]}
              ELSE injectors[s]]
        /\ calls' = [s \in Scripts |->
              EditCalls(hidden(s), FALSE)
              \o (IF throws(s)
                  THEN <<Call("throw", "TypeError", DeleteMethod(s))>>
                  ELSE <<Call("deleteOverlay", webGifOverlay[s], UNDEFINED)>>)
              \o (IF stops(s) THEN <<Call("stop", audioPlaying[s], UNDEFINED)>> ELSE <<>>)]
        /\ event' = Event("leaveEntity", "")
        /\ UNCHANGED <<zoneLoaded, nearby, enters, desktopEntities, gamePadEntities, viveEntities,
                       riftEntities, overlayUrl, audioPlaying, deviceVars>>

\* the sound cache finishes the download of a sound
SoundDownloaded(snd) ==
    /\ ~downloaded[snd]
    /\ downloaded' = [downloaded EXCEPT ![snd] = TRUE]
    /\ event' = Event("soundDownloaded", "")
    /\ UNCHANGED <<hmdActive, riftAvailable, gamePad, zoneVars>>

(***************************************************************************)
(* ControllerDisplayManager (part_001).  createControllerDisplay,          *)
(* deleteControllerDisplay and the display's methods come from             *)
(* controllerDisplay.js and viveControllerConfiguration.js.                *)
(***************************************************************************)
NULL == "null"

Sides == {"left", "right"}

\* the annotations of each display: name -> overlays.  The left display has
\* no annotation "b".
Annotations ==
    [d \in Sides |->
        IF d = "left"
        THEN [n \in {"a"} |-> <<"La1", "La2">>]
        ELSE [n \in {"a", "b"} |-> IF n = "a" THEN <<"Ra1">> ELSE <<"Rb1">>]]

\* the part of each display: name -> overlay
Parts == [d \in Sides |-> [n \in {"p"} |-> IF d = "left" THEN "Lp" ELSE "Rp"]]

\* the overlays of display d
DisplayOverlays(d) ==
    UNION {Range(Annotations[d][n]) : n \in DOMAIN Annotations[d]}
    \cup {Parts[d][n] : n \in DOMAIN Parts[d]}

OverlayIds == DisplayOverlays("left") \cup DisplayOverlays("right")

Layers == {"world", "front"}

Channels == {"Controller-Display", "Controller-Display-Parts",
             "Controller-Set-Part-Layer", "Hifi-Object-Manipulation"}

\* a message: the channel, the sender, and the one key and value of its payload
\* ({name, visible}, {part: visible}, {part: layer}, {joint, action})
Message(ch, sender, key, val) == [channel |-> ch, sender |-> sender, key |-> key, val |-> val]

\* the message as text: channel, sender and payload
MessageText(m) == m.channel \o " " \o m.sender \o " " \o m.key \o " " \o m.val

\* the messages the host may deliver
Messages ==
    {Message("Controller-Display", snd, n, v) :
        snd \in {"me", "other"}, n \in {"a", "b", "zz"}, v \in {"true", "false"}}
    \cup {Message("Controller-Display-Parts", snd, n, v) :
        snd \in {"me", "other"}, n \in {"p", "zz"}, v \in {"true", "false"}}
    \cup {Message("Controller-Set-Part-Layer", snd, n, v) :
        snd \in {"me", "other"}, n \in {"p", "zz"}, v \in Layers}
    \cup {Message("Hifi-Object-Manipulation", snd, j, a) :
        snd \in {"me", "other"}, j \in {"LeftHand", "RightHand"}, a \in {"equip", "release"}}

\* the controller variable of a side
ControllerOf(d) == IF d = "left" THEN controllerLeft ELSE controllerRight

\* the sides whose display exists
Existing == {d \in Sides : ControllerOf(d) # NULL}

\* an id no active interval has
FreshInterval == "int" \o ToString(CHOOSE n \in 1..(Cardinality(intervals) + 1) :
                                       ("int" \o ToString(n)) \notin intervals)

\* the overlays once the controller variables are `left` and `right`:
\* createControllerDisplay shows the parts of a new display in the world
\* layer and hides its annotations, deleteControllerDisplay deletes the
\* overlays of a display, the overlays of a display that stays keep their state
OverlaysAfter(left, right) ==
    LET now(d) == IF d = "left" THEN left ELSE right
    IN  /\ ovVisible' = [o \in OverlayIds |->
              LET d == IF o \in DisplayOverlays("left") THEN "left" ELSE "right"
              IN  IF now(d) = NULL THEN FALSE
                  ELSE IF ControllerOf(d) = NULL
                       THEN o \in {Parts[d][n] : n \in DOMAIN Parts[d]}
                  ELSE ovVisible[o]]
        /\ partLayer' = [d \in Sides |->
              IF now(d) = NULL \/ ControllerOf(d) = NULL THEN "world"
              ELSE partLayer[d]]
        /\ dispVisible' = [d \in Sides |->
              IF now(d) = NULL THEN FALSE
              ELSE IF ControllerOf(d) = NULL THEN TRUE
              ELSE dispVisible[d]]

\* this.deleteControllerDisplays()
DeleteControllerDisplays ==
    /\ controllerLeft' = NULL
    /\ controllerRight' = NULL
    /\ OverlaysAfter(NULL, NULL)

\* the Vive branch of updateControllers leaving its polling interval running
FoundClearsInterval_Never == FALSE

\* part_001:81 : if (controllerCheckerIntervalID), once the controllers are found
FoundClearsInterval == controllerCheckerIntervalID # NULL

\* updateControllers() with HMD.active = h
UpdateControllers(h) ==
    IF h
    THEN IF viveHardware
         THEN /\ controllerLeft' = (IF controllerLeft = NULL THEN "left" ELSE controllerLeft)
              /\ controllerRight' = (IF controllerRight = NULL THEN "right"
                                     ELSE controllerRight)
              /\ OverlaysAfter(IF controllerLeft = NULL THEN "left" ELSE controllerLeft,
                               IF controllerRight = NULL THEN "right" ELSE controllerRight)
              /\ IF FoundClearsInterval
                 THEN /\ intervals' = intervals \ {controllerCheckerIntervalID}
                      /\ controllerCheckerIntervalID' = NULL
                 ELSE UNCHANGED <<intervals, controllerCheckerIntervalID>>
         ELSE /\ DeleteControllerDisplays
              /\ IF controllerCheckerIntervalID = NULL
                 THEN /\ controllerCheckerIntervalID' = FreshInterval
                      /\ intervals' = intervals \cup {FreshInterval}
                 ELSE UNCHANGED <<intervals, controllerCheckerIntervalID>>
    ELSE /\ IF controllerCheckerIntervalID # NULL
            THEN /\ intervals' = intervals \ {controllerCheckerIntervalID}
                 /\ controllerCheckerIntervalID' = NULL
            ELSE UNCHANGED <<intervals, controllerCheckerIntervalID>>
         /\ DeleteControllerDisplays

\* HMD.displayModeChanged: the headset is put on or off; updateControllers is
\* connected to the signal and never disconnected
CdmDisplayModeChanged ==
    /\ hmdActive' = ~hmdActive
    /\ UpdateControllers(~hmdActive)
    /\ cdmCalls' = <<>>
    /\ event' = Event("displayModeChanged", "")
    /\ UNCHANGED <<riftAvailable, gamePad, downloaded, viveHardware, connected,
                   subscribed>>

\* the interval firing a callback that does nothing
CdmPollTick_NoUpdate ==
    /\ intervals # {}
    /\ event' = Event("pollTick", "")
    /\ UNCHANGED <<deviceVars, cdmVars>>

\* the interval of Script.setInterval(updateControllers, 1000) fires
CdmPollTick ==
    /\ intervals # {}
    /\ UpdateControllers(hmdActive)
    /\ cdmCalls' = <<>>
    /\ event' = Event("pollTick", "")
    /\ UNCHANGED <<deviceVars, viveHardware, connected, subscribed>>

\* the Vive controllers are plugged or unplugged
HostSetViveHardware ==
    /\ viveHardware' = ~viveHardware
    /\ event' = Event("hostSetViveHardware", "")
    /\ UNCHANGED <<deviceVars, controllerLeft, controllerRight,
                   controllerCheckerIntervalID, intervals, connected, subscribed,
                   ovVisible, partLayer, dispVisible, cdmCalls>>

\* the 'Hifi-Object-Manipulation' branch without its early return
ManipulationReturns_Removed == FALSE

\* the early return of the 'Hifi-Object-Manipulation' branch (part_001:160)
ManipulationReturns == TRUE

\* handleMessages editing the annotations of the left display only
EditedOverlays_LeftOnly(m) ==
    IF m.channel = "Controller-Display" /\ controllerLeft # NULL
       /\ m.key \in DOMAIN Annotations["left"]
    THEN Annotations["left"][m.key]
    ELSE <<>>

\* the overlays handleMessages edits for message m, in the order of the edits
EditedOverlays(m) ==
    IF m.channel = "Controller-Display"
    THEN Flatten([i \in 1..2 |->
            LET d == IF i = 1 THEN "left" ELSE "right"
            IN  IF ControllerOf(d) # NULL /\ m.key \in DOMAIN Annotations[d]
                THEN Annotations[d][m.key] ELSE <<>>])
    ELSE <<>>

\* handleMessages(channel, message, sender)
CdmMessage(m) ==
    /\ connected
    /\ event' = Event("message", MessageText(m))
    /\ UNCHANGED <<deviceVars, viveHardware, controllerLeft, controllerRight,
                   controllerCheckerIntervalID, intervals, connected, subscribed>>
    /\ IF (controllerLeft = NULL /\ controllerRight = NULL) \/ m.sender # "me"
       THEN /\ cdmCalls' = <<>>
            /\ UNCHANGED <<ovVisible, partLayer, dispVisible>>
       ELSE CASE m.channel = "Controller-Display" ->
                    /\ ovVisible' = [o \in OverlayIds |->
                          IF o \in Range(EditedOverlays(m)) THEN m.val = "true"
                          ELSE ovVisible[o]]
                    /\ cdmCalls' = [i \in 1..Len(EditedOverlays(m)) |->
                          Call("editOverlay", EditedOverlays(m)[i], m.val)]
                    /\ UNCHANGED <<partLayer, dispVisible>>
              [] m.channel = "Controller-Display-Parts" ->
                    \* controllerLeft.setPartVisible(name, visible), then the right one
                    /\ ovVisible' = [o \in OverlayIds |->
                          IF \E d \in Existing : m.key \in DOMAIN Parts[d] /\ o = Parts[d][m.key]
                          THEN m.val = "true" ELSE ovVisible[o]]
                    /\ cdmCalls' = (IF controllerLeft # NULL
                                    THEN <<Call("left.setPartVisible", m.key, m.val)>>
                                    ELSE <<>>)
                                   \o (IF controllerRight # NULL
                                       THEN <<Call("right.setPartVisible", m.key, m.val)>>
                                       ELSE <<>>)
                    /\ UNCHANGED <<partLayer, dispVisible>>
              [] m.channel = "Controller-Set-Part-Layer" ->
                    \* controllerLeft.setLayerForPart(name, layer), then the right one
                    /\ partLayer' = [d \in Sides |->
                          IF d \in Existing /\ m.key \in DOMAIN Parts[d] THEN m.val
                          ELSE partLayer[d]]
                    /\ cdmCalls' = (IF controllerLeft # NULL
                                    THEN <<Call("left.setLayerForPart", m.key, m.val)>>
                                    ELSE <<>>)
                                   \o (IF controllerRight # NULL
                                       THEN <<Call("right.setLayerForPart", m.key, m.val)>>
                                       ELSE <<>>)
                    /\ UNCHANGED <<ovVisible, dispVisible>>
              [] OTHER ->
                    \* 'Hifi-Object-Manipulation'
                    IF ManipulationReturns
                    THEN /\ cdmCalls' = <<>>
                         /\ UNCHANGED <<ovVisible, partLayer, dispVisible>>
                    ELSE LET d == IF m.key = "LeftHand" THEN "left" ELSE "right"
                             v == JsBool(m.val # "equip")
                         IN  /\ dispVisible' = [dispVisible EXCEPT ![d] = (m.val # "equip")]
                             /\ cdmCalls' = <<Call(d \o ".setVisible", v, UNDEFINED)>>
                             /\ UNCHANGED <<ovVisible, partLayer>>

\* this.setLeftVisible(visible)
CdmSetLeftVisible(v) ==
    /\ event' = Event("setLeftVisible", JsBool(v))
    /\ IF controllerLeft # NULL
       THEN /\ dispVisible' = [dispVisible EXCEPT !["left"] = v]
            /\ cdmCalls' = <<Call("left.setVisible", JsBool(v), UNDEFINED)>>
       ELSE /\ cdmCalls' = <<>>
            /\ UNCHANGED dispVisible
    /\ UNCHANGED <<deviceVars, viveHardware, controllerLeft, controllerRight,
                   controllerCheckerIntervalID, intervals, connected, subscribed,
                   ovVisible, partLayer>>

\* this.setRightVisible(visible): Object.keys(controllerRight) comes before
\* the null check and throws a TypeError when controllerRight is null
CdmSetRightVisible(v) ==
    /\ event' = Event("setRightVisible", JsBool(v))
    /\ IF controllerRight # NULL
       THEN /\ dispVisible' = [dispVisible EXCEPT !["right"] = v]
            /\ cdmCalls' = <<Call("right.setVisible", JsBool(v), UNDEFINED)>>
       ELSE /\ cdmCalls' = <<Call("throw", "TypeError", "Object.keys")>>
            /\ UNCHANGED dispVisible
    /\ UNCHANGED <<deviceVars, viveHardware, controllerLeft, controllerRight,
                   controllerCheckerIntervalID, intervals, connected, subscribed,
                   ovVisible, partLayer>>

\* this.deleteControllerDisplays(), called from outside
CdmDeleteControllerDisplays ==
    /\ event' = Event("deleteControllerDisplays", "")
    /\ DeleteControllerDisplays
    /\ cdmCalls' = [i \in 1..Cardinality(Existing) |->
                      Call("deleteControllerDisplay",
                           IF i = 1 /\ controllerLeft # NULL THEN "left" ELSE "right",
                           UNDEFINED)]
    /\ UNCHANGED <<deviceVars, viveHardware, controllerCheckerIntervalID, intervals,
                   connected, subscribed>>

\* this.destroy()
CdmDestroy ==
    /\ connected
    /\ event' = Event("destroy", "")
    /\ connected' = FALSE
    /\ DeleteControllerDisplays
    /\ cdmCalls' = <<>>
    /\ UNCHANGED <<deviceVars, viveHardware, controllerCheckerIntervalID, intervals,
                   subscribed>>

(***************************************************************************)
(* replaceAvatar.js and assets/tutorial/entryPortal.js                     *)
(***************************************************************************)
\* the entities that carry replaceAvatar.js, and their modelURL property
AvatarEntities == {"m1", "m2"}

ModelURL(e) == "url-" \o e

TrigSounds == {"chime", "teleport"}

\* replaceAvatar(entityID)
ReplaceAvatar(e) ==
    /\ avatarUrl' = ModelURL(e)
    /\ trigCalls' = <<Call("useFullAvatarURL", ModelURL(e), UNDEFINED)>>
                    \o (IF downloaded["chime"]
                        THEN <<Call("playSound", "chime", JsBool(downloaded["chime"]))>>
                        ELSE <<>>)
    /\ UNCHANGED <<deviceVars, teleport, location, zoneNotified>>

\* startFarTrigger / startNearTrigger = replaceAvatar
StartTrigger(e) ==
    /\ event' = Event("startTrigger", e)
    /\ ReplaceAvatar(e)

\* clickDownOnEntity = replaceAvatarByMouse(entityID, mouseEvent)
ClickDownOnEntity(e, isLeftButton) ==
    /\ event' = Event("clickDownOnEntity", JsBool(isLeftButton))
    /\ IF isLeftButton
       THEN ReplaceAvatar(e)
       ELSE /\ trigCalls' = <<>>
            /\ UNCHANGED <<deviceVars, avatarUrl, teleport, location, zoneNotified>>

\* entryPortal.js preload(entityID)
EpPreload ==
    /\ teleport = UNDEFINED
    /\ teleport' = "teleport"
    /\ trigCalls' = <<>>
    /\ event' = Event("epPreload", "")
    /\ UNCHANGED <<deviceVars, avatarUrl, location, zoneNotified>>

\* entryPortal.js enterEntity(entityID)
EpEnter ==
    /\ teleport # UNDEFINED
    /\ location = "portal"
    /\ zoneNotified' = TRUE
    /\ location' = "entry"
    /\ trigCalls' = <<Call("callEntityMethod", "tutorialZone", "onEnteredEntryPortal"),
                      Call("goToEntry", UNDEFINED, UNDEFINED)>>
    /\ event' = Event("epEnterEntity", "")
    /\ UNCHANGED <<deviceVars, avatarUrl, teleport>>

\* entryPortal.js leaveEntity(entityID): playSound() asks for no downloaded flag
EpLeave ==
    /\ teleport # UNDEFINED
    /\ location = "entry"
    /\ location' = "away"
    /\ trigCalls' = <<Call("playSound", teleport, JsBool(downloaded["teleport"]))>>
    /\ event' = Event("epLeaveEntity", "")
    /\ UNCHANGED <<deviceVars, avatarUrl, teleport, zoneNotified>>

\* the avatar walks back to the portal
HostWalkToPortal ==
    /\ location # "portal"
    /\ location' = "portal"
    /\ event' = Event("hostWalkToPortal", "")
    /\ UNCHANGED <<deviceVars, avatarUrl, teleport, zoneNotified, trigCalls>>

\* the sound cache finishes the download of the chime or of the teleport sound
TrigSoundDownloaded(snd) ==
    /\ ~downloaded[snd]
    /\ snd = "teleport" => teleport # UNDEFINED
    /\ downloaded' = [downloaded EXCEPT ![snd] = TRUE]
    /\ event' = Event("soundDownloaded", snd)
    /\ UNCHANGED <<hmdActive, riftAvailable, gamePad, trigVars>>

(***************************************************************************)
(* The portal script (part_000).  Strings are sequences of characters.     *)
(***************************************************************************)
\* the userData values the portal entity is given
UserDatas == {<<>>, <<"/">>, <<"/", "a">>, <<"d">>, <<"d", "/">>}

\* the value of a variable never assigned
UndefinedString == <<"undefined">>

\* "hifi://"
HifiScheme == <<"h", "i", "f", "i", ":", "/", "/">>

\* where the avatar is before any teleport
StartLocation == HifiScheme \o <<"h", "o", "m", "e">>

\* enterEntity deciding from the value preload cached
EntryDestination_Cached == portalDestination

\* part_000:14-15 : the userData read when the avatar enters
EntryDestination == userData

\* part_000:19-27 : the address a non-empty destination d teleports to
Address(d) == IF d[1] = "/" THEN d ELSE HifiScheme \o d

\* preload(entityID)
PortalPreload ==
    /\ portalDestination = UndefinedString
    /\ portalDestination' = userData
    /\ locationAssigned' = FALSE
    /\ event' = Event("portalPreload", "")
    /\ UNCHANGED <<userData, windowLocation>>

\* enterEntity(entityID)
PortalEnter ==
    /\ portalDestination # UndefinedString
    /\ portalDestination' = EntryDestination
    /\ IF Len(EntryDestination) > 0
       THEN /\ windowLocation' = Address(EntryDestination)
            /\ locationAssigned' = TRUE
       ELSE /\ locationAssigned' = FALSE
            /\ UNCHANGED windowLocation
    /\ event' = Event("portalEnterEntity", "")
    /\ UNCHANGED userData

\* leaveEntity(entityID)
PortalLeave ==
    /\ portalDestination # UndefinedString
    /\ locationAssigned' = FALSE
    /\ event' = Event("portalLeaveEntity", "")
    /\ UNCHANGED <<portalDestination, userData, windowLocation>>

\* the owner of the portal edits its userData
HostSetUserData(u) ==
    /\ u # userData
    /\ userData' = u
    /\ event' = Event("hostSetUserData", "")
    /\ UNCHANGED <<portalDestination, windowLocation, locationAssigned>>

(***************************************************************************)
(* assets/tutorial/utils.js.  A JavaScript value is a record of its type   *)
(* and its text, so that == converts as JavaScript does.                   *)
(***************************************************************************)
JsVal(t, v) == [t |-> t, v |-> v]

JsUndefined == JsVal("undefined", "")

\* the values a property has here: the number 1, the string "1", the string "a"
PropValues == {JsVal("num", "1"), JsVal("str", "1"), JsVal("str", "a")}

PropKeys == {"k1", "k2"}

\* the order of `for (var key in properties)`
KeyOrder == <<"k1", "k2">>

\* the entities the host knows, in the order Entities.findEntities reports
\* them, and their distance from { x: 0, y: 0, z: 0 }
UtilOrder == <<"u1", "u2", "u3">>

UtilEntities == {"u1", "u2", "u3"}

Distance == [e \in UtilEntities |-> IF e = "u1" THEN 5 ELSE IF e = "u2" THEN 50 ELSE 99999]

\* the property sets an entity may have
EntityProps ==
    {[k \in PropKeys |-> IF k = "k1" THEN JsVal("num", "1") ELSE JsVal("str", "a")],
     [k \in PropKeys |-> IF k = "k1" THEN JsVal("str", "1") ELSE JsVal("str", "a")],
     [k \in PropKeys |-> IF k = "k1" THEN JsVal("str", "a") ELSE JsUndefined]}

\* the `properties` arguments: an object with some of the keys
PropertyArgs == UNION {[ks -> PropValues] : ks \in SUBSET PropKeys}

\* the `searchRadius` arguments: omitted, 0, and numbers
RadiusArgs == {JsUndefined, JsVal("num", "0"), JsVal("num", "10"), JsVal("num", "100"),
               JsVal("num", "-5")}

\* the `filterFn` arguments: omitted, or function(properties, key, value)
\* { return value !== undefined; }
FilterArgs == {"undefined", "hasKey"}

\* the number a numeric text stands for
NumberOf(v) ==
    CASE v = "0" -> 0 [] v = "1" -> 1 [] v = "10" -> 10 [] v = "100" -> 100 [] OTHER -> 0 - 5

\* ToNumber of a string: "a" is NaN
StringToNumber(v) == IF v \in {"0", "1", "10", "100", "-5"} THEN v ELSE "NaN"

\* a == b
LooseEquals(a, b) ==
    IF a.t = b.t THEN a.v = b.v
    ELSE IF a.t = "num" /\ b.t = "str" THEN StringToNumber(b.v) = a.v
    ELSE IF a.t = "str" /\ b.t = "num" THEN StringToNumber(a.v) = b.v
    ELSE FALSE

\* searchRadius ? searchRadius : 100000, with every radius kept
SearchRadius_NoDefault(r) == IF r.t = "num" THEN NumberOf(r.v) ELSE 0

\* utils.js:24  searchRadius = searchRadius ? searchRadius : 100000
SearchRadius(r) == IF r.t = "num" /\ NumberOf(r.v) # 0 THEN NumberOf(r.v) ELSE 100000

\* Entities.findEntities({ x: 0, y: 0, z: 0 }, radius)
HostFindEntities(radius) == SelectSeq(UtilOrder, LAMBDA e : Distance[e] <= radius)

\* filterFn(properties, key, value): the default of utils.js:19-23 or the
\* caller's
FilterFn(f, properties, key, value) ==
    IF f = "undefined" THEN LooseEquals(value, properties[key])
    ELSE value.t # "undefined"

\* utils.js:31-37 : the loop over the keys of `properties`, left at the first
\* key the filter rejects
RECURSIVE MatchKeys(_, _, _, _)
MatchKeys(f, properties, candidateProperties, ks) ==
    IF ks = <<>> THEN TRUE
    ELSE IF ~FilterFn(f, properties, Head(ks), candidateProperties[Head(ks)]) THEN FALSE
    ELSE MatchKeys(f, properties, candidateProperties, Tail(ks))

\* utils.js:28-41 : the loop over the entities from index i on
RECURSIVE MatchLoop(_, _, _, _, _)
MatchLoop(f, properties, entities, i, matchedEntities) ==
    IF i > Len(entities) THEN matchedEntities
    ELSE LET keys == DOMAIN properties
             \* Entities.getEntityProperties(entities[i], keys)
             candidateProperties == [k \in keys |-> uWorld[entities[i]][k]]
             match == MatchKeys(f, properties, candidateProperties,
                                SelectSeq(KeyOrder, LAMBDA k : k \in keys))
         IN  MatchLoop(f, properties, entities, i + 1,
                       IF match THEN Append(matchedEntities, entities[i])
                       ELSE matchedEntities)

\* Utils.findEntities(properties, searchRadius, filterFn)
findEntities(properties, searchRadius, filterFn) ==
    MatchLoop(filterFn, properties, HostFindEntities(SearchRadius(searchRadius)), 1, <<>>)

\* the names the global scope has once utils.js has run (utils.js:11)
GlobalNames == {"Utils"}

\* what a call returns or throws
Returned(error, list, one) == [error |-> error, list |-> list, one |-> one]

\* a call of Utils.findEntities
CallFindEntities(properties, searchRadius, filterFn) ==
    /\ uArgs' = [properties |-> properties, searchRadius |-> searchRadius,
                 filterFn |-> filterFn]
    /\ uResult' = Returned("none", findEntities(properties, searchRadius, filterFn), "")
    /\ event' = Event("findEntities", "")
    /\ UNCHANGED uWorld

\* a call of Utils.findEntity: line 13 calls the bare name findEntities, which
\* is looked up in the global scope
CallFindEntity(properties, searchRadius, filterFn) ==
    LET entities == findEntities(properties, searchRadius, filterFn)
    IN  /\ uArgs' = [properties |-> properties, searchRadius |-> searchRadius,
                     filterFn |-> filterFn]
        /\ uResult' = IF "findEntities" \in GlobalNames
                      THEN Returned("none", <<>>,
                                    IF Len(entities) > 0 THEN entities[1] ELSE "null")
                      ELSE Returned("ReferenceError", <<>>, "")
        /\ event' = Event("findEntity", "")
        /\ UNCHANGED uWorld

(***************************************************************************)
(* spawnOrangeCube.js                                                      *)
(***************************************************************************)
\* the preload calls and the cubes a run is followed for
MaxPreloads == 3

MaxCubes == 3

\* preload(entityID): cubeProperties = ..., spawnCubeInterval =
\* Script.setInterval(..., CHECK_INTERVAL)
CubePreload ==
    LET id == "cint" \o ToString(preloads + 1)
    IN  /\ preloads < MaxPreloads
        /\ preloads' = preloads + 1
        /\ spawnCubeInterval' = id
        /\ cubeIntervals' = cubeIntervals \cup {id}
        /\ unloaded' = FALSE
        /\ event' = Event("cubePreload", id)
        /\ UNCHANGED cubesAdded

\* unload(): Script.clearInterval(spawnCubeInterval)
CubeUnload ==
    /\ cubeIntervals' = cubeIntervals \ {spawnCubeInterval}
    /\ unloaded' = TRUE
    /\ event' = Event("cubeUnload", spawnCubeInterval)
    /\ UNCHANGED <<spawnCubeInterval, cubesAdded, preloads>>

\* the interval id fires: Entities.addEntity(cubeProperties)
CubeTick(id) ==
    /\ id \in cubeIntervals
    /\ cubesAdded < MaxCubes
    /\ cubesAdded' = cubesAdded + 1
    /\ event' = Event("cubeTick", id)
    /\ UNCHANGED <<spawnCubeInterval, cubeIntervals, preloads, unloaded>>

(***************************************************************************)
(* Initial state and specifications                                        *)
(***************************************************************************)
\* the toggle scripts as constructed (movementToggle.js:17-19, part_003:217),
\* with the avatar setting a and Audio.muted m as the host has them
ToggleStart(a, m, c, sv) ==
    /\ omLoaded = FALSE
    /\ omIsActive = UNDEFINED
    /\ omCanChange = TRUE
    /\ omTimers = 0
    /\ menuChecked = c
    /\ settingsValue = sv
    /\ omSignTexture = "unset"
    /\ mtLoaded = FALSE
    /\ isActive = UNDEFINED
    /\ mtCanChange = TRUE
    /\ mtTimers = 0
    /\ advMove = a
    /\ signTexture = "unset"
    /\ muCanChange = TRUE
    /\ muTimers = 0
    /\ audioMuted = m

InitToggle == \E a, m, c \in BOOLEAN, sv \in SettingsValues : ToggleStart(a, m, c, sv)

\* the toggle scripts not running
IdleToggle == ToggleStart(FALSE, FALSE, FALSE, "")

Sounds == ZoneSounds \cup TrigSounds

\* the devices and the sound cache when the scripts start
DevicesStart(h, r) ==
    /\ hmdActive = h
    /\ riftAvailable = r
    /\ gamePad = FALSE
    /\ downloaded = [snd \in Sounds |-> FALSE]

\* the zone-item scripts as constructed (zoneItemMarket.js:31-38) in world w
ZoneStart(w) ==
    /\ zoneLoaded = FALSE
    /\ nearby = w
    /\ inside = FALSE
    /\ enters = 0
    /\ desktopEntities = [s \in Scripts |-> <<>>]
    /\ gamePadEntities = [s \in Scripts |-> <<>>]
    /\ viveEntities = [s \in Scripts |-> <<>>]
    /\ riftEntities = [s \in Scripts |-> <<>>]
    /\ overlayUrl = [s \in Scripts |-> UNDEFINED]
    /\ webGifOverlay = [s \in Scripts |-> UNDEFINED]
    /\ audioPlaying = [s \in Scripts |-> UNDEFINED]
    /\ visible = [s \in Scripts |-> [e \in Entities |-> FALSE]]
    /\ overlays = [s \in Scripts |-> {}]
    /\ injectors = [s \in Scripts |-> {}]
    /\ calls = [s \in Scripts |-> <<>>]

InitZone == \E w \in NearbyWorlds : ZoneStart(w)

\* the manager as constructed (part_001:45-49, 104, 176, 195-197) with the
\* headset on or off (h) and the Vive controllers plugged or not (v): the
\* constructor ends with updateControllers(), which creates both displays
\* when it finds h and v and starts the polling interval when it finds h
\* without v
CdmStart(h, v) ==
    /\ viveHardware = v
    /\ controllerLeft = (IF h /\ v THEN "left" ELSE NULL)
    /\ controllerRight = (IF h /\ v THEN "right" ELSE NULL)
    /\ controllerCheckerIntervalID = (IF h /\ ~v THEN "int1" ELSE NULL)
    /\ intervals = (IF h /\ ~v THEN {"int1"} ELSE {})
    /\ connected = TRUE
    /\ subscribed = {"Controller-Display"}
    /\ ovVisible = [o \in OverlayIds |->
                      h /\ v /\ \E d \in Sides : o \in {Parts[d][n] : n \in DOMAIN Parts[d]}]
    /\ partLayer = [d \in Sides |-> "world"]
    /\ dispVisible = [d \in Sides |-> h /\ v]
    /\ cdmCalls = <<>>

InitCdm == \E h, v \in BOOLEAN : DevicesStart(h, FALSE) /\ CdmStart(h, v)

\* replaceAvatar.js and entryPortal.js as constructed, the avatar at the portal
InitTrig ==
    /\ avatarUrl = "url-default"
    /\ teleport = UNDEFINED
    /\ location = "portal"
    /\ zoneNotified = FALSE
    /\ trigCalls = <<>>

\* the portal script as constructed, its entity carrying userData u
PortalStart(u) ==
    /\ portalDestination = UndefinedString
    /\ userData = u
    /\ windowLocation = StartLocation
    /\ locationAssigned = FALSE

InitPortal == \E u \in UserDatas : PortalStart(u)

\* no portal at work
IdlePortal == PortalStart(<<>>)

\* utils.js loaded in a domain whose entities have the properties w
UtilsStart(w) ==
    /\ uWorld = w
    /\ uArgs = [properties |-> <<>>, searchRadius |-> JsUndefined, filterFn |-> "undefined"]
    /\ uResult = Returned("none", <<>>, "")

InitUtils == \E w \in [UtilEntities -> EntityProps] : UtilsStart(w)

\* utils.js not in use
IdleUtils ==
    UtilsStart([e \in UtilEntities |-> [k \in PropKeys |-> JsVal("num", "1")]])

\* spawnOrangeCube.js as constructed (spawnOrangeCube.js:15-16)
InitCube ==
    /\ spawnCubeInterval = UNDEFINED
    /\ cubeIntervals = {}
    /\ cubesAdded = 0
    /\ preloads = 0
    /\ unloaded = FALSE

\* no cube spawner at work
IdleCube == InitCube

\* no manager at work
IdleCdm == CdmStart(FALSE, FALSE)

\* the zone-item scripts not running
IdleZone == ZoneStart({})

InitT ==
    /\ event = Event("init", "")
    /\ InitToggle
    /\ DevicesStart(FALSE, FALSE)
    /\ IdleZone
    /\ IdleCdm
    /\ InitTrig
    /\ IdlePortal
    /\ IdleUtils
    /\ IdleCube

\* what the toggle scripts leave alone
ToggleFrame ==
    UNCHANGED <<deviceVars, zoneVars, cdmVars, trigVars, portalVars, utilVars, cubeVars>>

NextToggle ==
    \/ MtPreload /\ ToggleFrame
    \/ MtPress /\ ToggleFrame
    \/ MtTimeout /\ ToggleFrame
    \/ HostSetAdvancedMovement /\ ToggleFrame
    \/ MuPress /\ ToggleFrame
    \/ MuTimeout /\ ToggleFrame
    \/ HostSetMuted /\ ToggleFrame
    \/ OmPreload /\ OmFrame /\ ToggleFrame
    \/ OmPress /\ OmFrame /\ ToggleFrame
    \/ OmTimeout /\ OmFrame /\ ToggleFrame
    \/ HostSetMenuOption /\ OmFrame /\ ToggleFrame

SpecToggle == InitT /\ [][NextToggle]_vars

\* what the zone-item scripts leave alone
ZoneFrame ==
    UNCHANGED <<toggleVars, cdmVars, trigVars, portalVars, utilVars, cubeVars>>

NextZone ==
    \/ ZonePreload /\ ZoneFrame
    \/ \E h, g \in BOOLEAN : ZoneEnter(h, g) /\ ZoneFrame
    \/ ZoneLeave /\ ZoneFrame
    \/ \E snd \in ZoneSounds : SoundDownloaded(snd) /\ ZoneFrame

InitZ ==
    /\ event = Event("init", "")
    /\ IdleToggle
    /\ \E r \in BOOLEAN : DevicesStart(FALSE, r)
    /\ InitZone
    /\ IdleCdm
    /\ InitTrig
    /\ IdlePortal
    /\ IdleUtils
    /\ IdleCube

SpecZone == InitZ /\ [][NextZone]_vars

\* what the manager leaves alone
CdmFrame ==
    UNCHANGED <<toggleVars, zoneVars, trigVars, portalVars, utilVars, cubeVars>>

NextCdm ==
    \/ CdmDisplayModeChanged /\ CdmFrame
    \/ CdmPollTick /\ CdmFrame
    \/ HostSetViveHardware /\ CdmFrame
    \/ \E m \in Messages : CdmMessage(m) /\ CdmFrame
    \/ \E v \in BOOLEAN : CdmSetLeftVisible(v) /\ CdmFrame
    \/ \E v \in BOOLEAN : CdmSetRightVisible(v) /\ CdmFrame
    \/ CdmDeleteControllerDisplays /\ CdmFrame
    \/ CdmDestroy /\ CdmFrame

InitC ==
    /\ event = Event("init", "")
    /\ IdleToggle
    /\ InitCdm
    /\ IdleZone
    /\ InitTrig
    /\ IdlePortal
    /\ IdleUtils
    /\ IdleCube

SpecCDM == InitC /\ [][NextCdm]_vars

\* what replaceAvatar.js and entryPortal.js leave alone
TrigFrame ==
    UNCHANGED <<toggleVars, zoneVars, cdmVars, portalVars, utilVars, cubeVars>>

NextTrigger ==
    \/ \E e \in AvatarEntities : StartTrigger(e) /\ TrigFrame
    \/ \E e \in AvatarEntities, b \in BOOLEAN : ClickDownOnEntity(e, b) /\ TrigFrame
    \/ EpPreload /\ TrigFrame
    \/ EpEnter /\ TrigFrame
    \/ EpLeave /\ TrigFrame
    \/ HostWalkToPortal /\ TrigFrame
    \/ \E snd \in TrigSounds : TrigSoundDownloaded(snd) /\ TrigFrame

InitG ==
    /\ event = Event("init", "")
    /\ IdleToggle
    /\ DevicesStart(FALSE, FALSE)
    /\ IdleZone
    /\ IdleCdm
    /\ InitTrig
    /\ IdlePortal
    /\ IdleUtils
    /\ IdleCube

SpecTrigger == InitG /\ [][NextTrigger]_vars

\* what the portal script leaves alone
PortalFrame ==
    UNCHANGED <<toggleVars, deviceVars, zoneVars, cdmVars, trigVars, utilVars, cubeVars>>

NextPortal ==
    \/ PortalPreload /\ PortalFrame
    \/ PortalEnter /\ PortalFrame
    \/ PortalLeave /\ PortalFrame
    \/ \E u \in UserDatas : HostSetUserData(u) /\ PortalFrame

InitP ==
    /\ event = Event("init", "")
    /\ IdleToggle
    /\ DevicesStart(FALSE, FALSE)
    /\ IdleZone
    /\ IdleCdm
    /\ InitTrig
    /\ InitPortal
    /\ IdleUtils
    /\ IdleCube

SpecPortal == InitP /\ [][NextPortal]_vars

\* what utils.js leaves alone
UtilsFrame ==
    UNCHANGED <<toggleVars, deviceVars, zoneVars, cdmVars, trigVars, portalVars, cubeVars>>

NextUtils ==
    \/ \E p \in PropertyArgs, r \in RadiusArgs, f \in FilterArgs :
          CallFindEntities(p, r, f) /\ UtilsFrame
    \/ \E p \in PropertyArgs, r \in RadiusArgs, f \in FilterArgs :
          CallFindEntity(p, r, f) /\ UtilsFrame

InitU ==
    /\ event = Event("init", "")
    /\ IdleToggle
    /\ DevicesStart(FALSE, FALSE)
    /\ IdleZone
    /\ IdleCdm
    /\ InitTrig
    /\ IdlePortal
    /\ InitUtils
    /\ IdleCube

SpecUtils == InitU /\ [][NextUtils]_vars

\* what spawnOrangeCube.js leaves alone
CubeFrame ==
    UNCHANGED <<toggleVars, deviceVars, zoneVars, cdmVars, trigVars, portalVars, utilVars>>

NextCube ==
    \/ CubePreload /\ CubeFrame
    \/ CubeUnload /\ CubeFrame
    \/ \E id \in cubeIntervals : CubeTick(id) /\ CubeFrame

InitO ==
    /\ event = Event("init", "")
    /\ IdleToggle
    /\ DevicesStart(FALSE, FALSE)
    /\ IdleZone
    /\ IdleCdm
    /\ InitTrig
    /\ IdlePortal
    /\ IdleUtils
    /\ InitCube

SpecCube == InitO /\ [][NextCube]_vars

\* the toggle scripts with a host that runs every callback it was given by
\* Script.setTimeout (movementToggle.js:49-51, part_003:231-233, part_002:51-53)
SpecToggleFair ==
    /\ SpecToggle
    /\ WF_vars(MtTimeout /\ ToggleFrame)
    /\ WF_vars(MuTimeout /\ ToggleFrame)
    /\ WF_vars(OmTimeout /\ OmFrame /\ ToggleFrame)

\* the manager with a host that keeps firing an active polling interval
\* (Script.setInterval, part_001:89)
SpecCDMFair == SpecCDM /\ WF_vars(CdmPollTick /\ CdmFrame)

(***************************************************************************)
(* Properties                                                              *)
(***************************************************************************)
\* the calls of api `api` among the calls of script s, in order
CallsOf(s, api) == SelectSeq(calls[s], LAMBDA c : c.api = api)

\* C1: in movementToggle and muteToggle a press that arrives while the timer
\* of an accepted press is outstanding changes nothing: the toggled setting,
\* the sign texture and canChange keep their values and no timer is scheduled.
C1_PressInWindowIgnored ==
    [][ /\ (event'.op = "mtPress" /\ mtTimers > 0) =>
              UNCHANGED <<advMove, isActive, signTexture, mtCanChange, mtTimers>>
        /\ (event'.op = "muPress" /\ muTimers > 0) =>
              UNCHANGED <<audioMuted, muCanChange, muTimers>> ]_vars

\* a press of the movement sign was ignored inside the window of an accepted one
C1_Witness ==
    /\ event.op = "mtPress"
    /\ event.arg = "false"
    /\ mtTimers = 1
    /\ muTimers = 1

\* the lists an entry must show for the devices of the entry
C2_Selected ==
    IF ~hmdActive
    THEN (IF gamePad THEN {"desktop", "gamepad"} ELSE {"desktop"})
    ELSE IF ~riftAvailable THEN {"vive"}
    ELSE IF gamePad THEN {"gamepad"} ELSE {"rift"}

\* the entities of the selected lists of script s
C2_SelectedEntities(s) ==
    UNION {Range(ListNamed(s, l, desktopEntities, gamePadEntities, viveEntities,
                           riftEntities)) : l \in C2_Selected}

\* C2: in every zone-item script enterEntity edits to visible:true exactly
\* the entities of the lists selected by the input-device class, and makes
\* no other visibility edit.
C2_EnterShowsSelectedLists ==
    event.op = "enterEntity" =>
        \A s \in Scripts :
            /\ \A c \in Range(CallsOf(s, "editEntity")) : c.a2 = "true"
            /\ {c.a1 : c \in Range(CallsOf(s, "editEntity"))} = C2_SelectedEntities(s)
            /\ \A e \in C2_SelectedEntities(s) : visible[s][e]

\* a second entry with a Rift and a gamepad, all four lists filled
C2_Witness ==
    /\ event.op = "enterEntity"
    /\ enters = 2
    /\ hmdActive /\ riftAvailable /\ gamePad
    /\ nearby = Entities
    /\ \A s \in Scripts : C2_SelectedEntities(s) = {"e2"}

\* the id of the overlay and of the injector of the latest enterEntity
LastOverlayId == "ov" \o ToString(enters)
LastInjectorId == "inj" \o ToString(enters)

\* C3: when leaveEntity returns, every entity of the four lists has been
\* edited to visible:false, the overlay of the preceding enterEntity is
\* deleted, webGifOverlay is reset and the injector of that enterEntity is
\* stopped, in each of the four zone-item scripts.
C3_LeaveUndoesEnter ==
    event.op = "leaveEntity" =>
        \A s \in Scripts :
            /\ \A e \in Range(desktopEntities[s]) \cup Range(gamePadEntities[s])
                        \cup Range(viveEntities[s]) \cup Range(riftEntities[s]) :
                  ~visible[s][e]
            /\ \A o \in overlays[s] : o.id # LastOverlayId
            /\ webGifOverlay[s] = ""
            /\ \A j \in injectors[s] : j.id = LastInjectorId => ~j.playing

\* a visibility edit or an overlay call without the constants of the script
C6_Shape(c) ==
    CASE c.api = "editEntity" -> <<"editEntity", c.a1, c.a2>>
      [] c.api = "addOverlay" -> <<"addOverlay", c.a1, "url">>
      [] c.api = "deleteOverlay" -> <<"deleteOverlay", "id", "">>
      [] OTHER -> <<"", "", "">>

\* the visibility edits and overlay calls of the last handler of script s
C6_Trace(s) ==
    LET t == SelectSeq(calls[s],
                       LAMBDA c : c.api \in {"editEntity", "addOverlay", "deleteOverlay"})
    IN  [i \in 1..Len(t) |-> C6_Shape(t[i])]

\* C6: driven by the same events in the same world, the four zone-item
\* scripts issue the same visibility edits and the same overlay creation
\* and deletion calls.
C6_ScriptsEquivalent ==
    \A s, t \in Scripts : C6_Trace(s) = C6_Trace(t)

\* the GIF an entry must show for the devices of the entry
C7_Url ==
    IF ~hmdActive
    THEN (IF gamePad THEN "GIF_GAMEPAD_URL" ELSE "GIF_DESKTOP_URL")
    ELSE IF ~riftAvailable THEN "GIF_VIVE_URL"
    ELSE IF gamePad THEN "GIF_GAMEPAD_URL" ELSE "GIF_RIFT_URL"

\* C7: each enterEntity creates exactly one overlay of type web3d with the
\* base properties of the script and the GIF of the device class of that entry.
C7_EnterCreatesOneOverlay ==
    event.op = "enterEntity" =>
        \A s \in Scripts :
            /\ CallsOf(s, "addOverlay") = <<Call("addOverlay", "web3d", C7_Url)>>
            /\ [id |-> LastOverlayId, type |-> "web3d", url |-> C7_Url, base |-> s]
                  \in overlays[s]
            /\ webGifOverlay[s] = LastOverlayId

\* C8: in the Bubble and Places zone items enterEntity plays at most one
\* sound, the HMD narration when HMD.active holds and the desktop narration
\* otherwise.
C8_NarrationFollowsDisplayMode ==
    event.op = "enterEntity" =>
        \A s \in {"Bubble", "Places"} :
            /\ Len(CallsOf(s, "playSound")) <= 1
            /\ \A c \in Range(CallsOf(s, "playSound")) :
                  c.a1 = (IF hmdActive THEN "HMD_SOUND" ELSE "DESKTOP_SOUND")
            /\ \A j \in injectors[s] :
                  j.id = LastInjectorId =>
                      j.sound = (IF hmdActive THEN "HMD_SOUND" ELSE "DESKTOP_SOUND")

\* an entry in HMD mode, both narrations downloaded, that played the HMD one
C8_Witness ==
    /\ event.op = "enterEntity"
    /\ hmdActive
    /\ downloaded["HMD_SOUND"] /\ downloaded["DESKTOP_SOUND"]
    /\ \A s \in {"Bubble", "Places"} :
          CallsOf(s, "playSound") = <<Call("playSound", "HMD_SOUND", "true")>>

\* C4: in every script Audio.playSound is called only when the downloaded
\* flag of the sound is true.
C4_PlaySoundOnlyWhenDownloaded ==
    \A c \in Range(trigCalls) \cup UNION {Range(calls[s]) : s \in Scripts} :
        c.api = "playSound" => c.a2 = "true"

\* C5: setLeftVisible, setRightVisible, handleMessages and
\* deleteControllerDisplays complete without raising an error when a
\* controller is null, and do nothing for the null controller.
C5_NullControllerIsSafe ==
    (event.op \in {"setLeftVisible", "setRightVisible", "message",
                   "deleteControllerDisplays"}
     /\ (controllerLeft = NULL \/ controllerRight = NULL)) =>
        /\ \A c \in Range(cdmCalls) : c.api # "throw"
        /\ controllerLeft = NULL => ~dispVisible["left"]
        /\ controllerRight = NULL => ~dispVisible["right"]

\* the annotation overlays named n of the displays that exist
C9_Named(n) ==
    UNION {Range(Annotations[d][n]) : d \in {x \in Existing : n \in DOMAIN Annotations[x]}}

\* C9: a 'Controller-Display' message {name, visible} of the local avatar,
\* received while a controller display exists, sets the visible flag of every
\* overlay of annotations[name] of every existing display to `visible` and
\* edits no other overlay and no controller or timer state.
C9_DisplayMessageSetsAnnotations ==
    [][ \A m \in Messages :
          (/\ m.channel = "Controller-Display"
           /\ m.sender = "me"
           /\ event' = Event("message", MessageText(m))
           /\ Existing # {}) =>
              /\ \A o \in C9_Named(m.key) : ovVisible'[o] = (m.val = "true")
              /\ \A o \in OverlayIds \ C9_Named(m.key) : ovVisible'[o] = ovVisible[o]
              /\ {c.a1 : c \in Range(cdmCalls')} = C9_Named(m.key)
              /\ \A c \in Range(cdmCalls') : c.api = "editOverlay" /\ c.a2 = m.val
              /\ UNCHANGED <<controllerLeft, controllerRight, controllerCheckerIntervalID,
                             intervals, connected, subscribed, partLayer, dispVisible>>
      ]_vars

\* the annotation "a" of both displays was shown by a message
C9_Witness ==
    /\ event = Event("message", MessageText(Message("Controller-Display", "me", "a", "true")))
    /\ Existing = Sides
    /\ ovVisible["La1"] /\ ovVisible["La2"] /\ ovVisible["Ra1"]
    /\ ~ovVisible["Rb1"]

\* C10: a message on 'Hifi-Object-Manipulation' never changes the visibility
\* of a controller display: setLeftVisible and setRightVisible are not invoked
\* and all state is unchanged, whatever the payload.
C10_ManipulationIgnored ==
    [][ \A m \in Messages :
          (/\ m.channel = "Hifi-Object-Manipulation"
           /\ event' = Event("message", MessageText(m))) =>
              /\ cdmCalls' = <<>>
              /\ UNCHANGED <<deviceVars, viveHardware, controllerLeft, controllerRight,
                             controllerCheckerIntervalID, intervals, connected,
                             subscribed, ovVisible, partLayer, dispVisible>>
      ]_vars

\* the local avatar equipped an object in the left hand while the displays
\* exist, and the left display is still visible
C10_Witness ==
    /\ event = Event("message",
                     MessageText(Message("Hifi-Object-Manipulation", "me", "LeftHand", "equip")))
    /\ Existing = Sides
    /\ dispVisible["left"]

\* C11: the manager has subscribed to every channel handleMessages has a
\* branch for, so that whenever a controller display exists a message of the
\* local avatar on any of the four channels is delivered to handleMessages.
C11_SubscribedToHandledChannels ==
    Existing # {} => Channels \subseteq subscribed

\* C12: no script calls a method of another entity's script or changes the
\* state of another script directly: a handler of replaceAvatar.js or of
\* entryPortal.js makes no Entities.callEntityMethod call and the tutorial
\* zone's script is never told anything by it.
C12_NoDirectCall ==
    /\ \A c \in Range(trigCalls) : c.api # "callEntityMethod"
    /\ ~zoneNotified

\* updateControllers has just run: at construction, on a display-mode change
\* or on a tick of the polling interval
C13_JustUpdated == event.op \in {"init", "displayModeChanged", "pollTick"}

\* C13: after every run of updateControllers the manager matches the hardware
\* that run saw: HMD active with Vive hardware -> both displays exist and no
\* polling interval is active; HMD active without Vive hardware -> no display
\* and exactly one polling interval; HMD inactive -> no display and no
\* interval.  At all times no interval is active while a display exists and
\* at most one interval is active.
C13_StateMatchesHardware ==
    /\ C13_JustUpdated =>
          IF hmdActive /\ viveHardware
          THEN Existing = Sides /\ intervals = {} /\ controllerCheckerIntervalID = NULL
          ELSE IF hmdActive
          THEN /\ Existing = {}
               /\ Cardinality(intervals) = 1
               /\ intervals = {controllerCheckerIntervalID}
          ELSE Existing = {} /\ intervals = {} /\ controllerCheckerIntervalID = NULL
    /\ Existing # {} => intervals = {}
    /\ Cardinality(intervals) <= 1

\* the headset was put on without Vive controllers: updateControllers left no
\* display and started the one polling interval
C13_Witness ==
    /\ event.op = "displayModeChanged"
    /\ hmdActive /\ ~viveHardware
    /\ Existing = {}
    /\ Cardinality(intervals) = 1

\* both displays exist and no polling interval is left
C14_Found == Existing = Sides /\ intervals = {} /\ controllerCheckerIntervalID = NULL

\* C14 as stated: if the HMD is active with no Vive hardware and the Vive
\* hardware then becomes present (the host plugs it while the HMD is active)
\* and stays present while the HMD stays active, then, the host firing the
\* polling interval fairly, both displays eventually exist and no polling
\* interval is left.
C14_HotPlugAlwaysFound ==
    (event.op = "hostSetViveHardware" /\ hmdActive /\ viveHardware)
        ~> (C14_Found \/ ~(hmdActive /\ viveHardware))

\* C14 amended: while the polling interval is active (updateControllers last
\* ran with the HMD active and found no Vive hardware), once the Vive hardware
\* is present and stays present while the HMD stays active, both displays
\* are eventually created and the interval is cleared, the host firing the
\* interval fairly and with no display-mode change.
C14_PollingFindsHardware ==
    (hmdActive /\ viveHardware /\ intervals # {})
        ~> (C14_Found \/ ~(hmdActive /\ viveHardware))

\* a tick of the polling interval found the Vive controllers: the displays
\* have just been created, parts shown, and the interval is cleared
C14_Witness ==
    /\ event.op = "pollTick"
    /\ hmdActive /\ viveHardware
    /\ C14_Found
    /\ ovVisible["Lp"] /\ ovVisible["Rp"]

\* canChange is false exactly while one timer is outstanding, in the three
\* toggle scripts
C15_WindowIsTimer ==
    /\ mtTimers \in {0, 1} /\ (mtCanChange <=> mtTimers = 0)
    /\ muTimers \in {0, 1} /\ (muCanChange <=> muTimers = 0)
    /\ omTimers \in {0, 1} /\ (omCanChange <=> omTimers = 0)

\* C15: in movementToggle (both versions) and muteToggle every accepted
\* mousePressOnEntity schedules exactly one timer, canChange is false exactly
\* while a timer is outstanding, the timer callback makes canChange true
\* again, and, the host running the callbacks fairly, a disabled toggle is
\* always enabled again.
C15_DebounceReleases ==
    /\ []C15_WindowIsTimer
    /\ [][ /\ event' = Event("mtPress", "true") => mtTimers' = mtTimers + 1
           /\ event' = Event("muPress", "true") => muTimers' = muTimers + 1
           /\ event' = Event("omPress", "true") => omTimers' = omTimers + 1
           /\ event'.op = "mtTimeout" => mtCanChange'
           /\ event'.op = "muTimeout" => muCanChange'
           /\ event'.op = "omTimeout" => omCanChange' ]_vars
    /\ (~mtCanChange ~> mtCanChange)
    /\ (~muCanChange ~> muCanChange)
    /\ (~omCanChange ~> omCanChange)

\* the timer of an accepted press of movementToggle has run: the toggle
\* accepts again, with the setting as the press left it
C15_Witness ==
    /\ event.op = "mtTimeout"
    /\ mtCanChange
    /\ mtTimers = 0
    /\ isActive = JsBool(advMove)

\* C16: once destroy() has run (the message handler is disconnected, which
\* only destroy does) the manager is inert: no controller display exists or
\* is created again, no overlay is shown or edited and no polling interval
\* is active, whatever host events follow.
C16_InertAfterDestroy ==
    ~connected =>
        /\ Existing = {}
        /\ intervals = {}
        /\ \A o \in OverlayIds : ~ovVisible[o]
        /\ \A c \in Range(cdmCalls) : c.api # "editOverlay"

\* the number of entries of the four lists of script s together
C17_Entries(s) ==
    Len(desktopEntities[s]) + Len(gamePadEntities[s]) + Len(viveEntities[s])
    + Len(riftEntities[s])

\* C17: in every zone-item script each entity id occurs at most once in the
\* four lists taken together, after any sequence of enterEntity and
\* leaveEntity: the lists hold as many entries as distinct ids, never more
\* than there are nearby entities.
C17_ListsHoldEachEntityOnce ==
    \A s \in Scripts :
        /\ C17_Entries(s) =
              Cardinality(Range(desktopEntities[s]) \cup Range(gamePadEntities[s])
                          \cup Range(viveEntities[s]) \cup Range(riftEntities[s]))
        /\ C17_Entries(s) <= Cardinality(nearby)

\* C18: in every zone-item script at most one overlay created by the script
\* exists at any time, also after two enterEntity events with no leaveEntity
\* between them, and none exists once the avatar has left.
C18_AtMostOneOverlay ==
    \A s \in Scripts :
        /\ Cardinality(overlays[s]) <= 1
        /\ ~inside => overlays[s] = {}

\* C19: in movementToggle, after preload and after every accepted
\* mousePressOnEntity the cached isActive equals
\* MyAvatar.useAdvancedMovementControls and the sign shows ENABLED_TEXTURE
\* exactly when isActive is true, DISABLED_TEXTURE otherwise; and every
\* accepted press inverts the value the avatar setting had immediately before
\* the press.
C19_ViewsAgreeAndPressInverts ==
    [][ /\ (event'.op = "mtPreload" \/ event' = Event("mtPress", "true")) =>
              /\ isActive' = JsBool(advMove')
              /\ signTexture' = (IF isActive' = "true" THEN "ENABLED_TEXTURE"
                                 ELSE "DISABLED_TEXTURE")
        /\ event' = Event("mtPress", "true") => advMove' = ~advMove
      ]_vars

\* C20: in the portal script enterEntity decides from the userData the entity
\* has when the avatar enters, whatever preload cached: empty userData ->
\* Window.location is not assigned; userData starting with '/' ->
\* Window.location becomes the userData unchanged; otherwise Window.location
\* becomes "hifi://" followed by the userData.  leaveEntity never assigns
\* Window.location.
C20_EnterUsesCurrentUserData ==
    [][ /\ event'.op = "portalEnterEntity" =>
              IF userData = <<>>
              THEN ~locationAssigned' /\ windowLocation' = windowLocation
              ELSE IF Head(userData) = "/"
              THEN locationAssigned' /\ windowLocation' = userData
              ELSE locationAssigned' /\ windowLocation' = HifiScheme \o userData
        /\ event'.op = "portalLeaveEntity" =>
              ~locationAssigned' /\ windowLocation' = windowLocation
      ]_vars

\* the avatar entered the portal whose userData is "d" and was sent to
\* hifi://d
C20_Witness ==
    /\ event.op = "portalEnterEntity"
    /\ userData = <<"d">>
    /\ locationAssigned
    /\ windowLocation = <<"h", "i", "f", "i", ":", "/", "/", "d">>

\* the entities Utils.findEntities is to return for the arguments of the last
\* call: those the host reports within the radius (100000 when the radius is
\* omitted or zero), in host order, whose value passes the filter for every
\* key of `properties`
C22_Expected ==
    LET radius == IF uArgs.searchRadius.t = "undefined" \/ uArgs.searchRadius.v = "0"
                  THEN 100000 ELSE NumberOf(uArgs.searchRadius.v)
        passes(e, k) == IF uArgs.filterFn = "undefined"
                        THEN LooseEquals(uWorld[e][k], uArgs.properties[k])
                        ELSE FilterFn(uArgs.filterFn, uArgs.properties, k, uWorld[e][k])
    IN  SelectSeq(UtilOrder,
                  LAMBDA e : /\ Distance[e] <= radius
                             /\ \A k \in DOMAIN uArgs.properties : passes(e, k))

\* C21: Utils.findEntity(properties, searchRadius, filterFn) completes
\* without error and returns the first element of what Utils.findEntities
\* returns for the same arguments, or null when that is empty.
C21_FindEntityReturnsFirst ==
    event.op = "findEntity" =>
        /\ uResult.error = "none"
        /\ uResult.one = (IF C22_Expected = <<>> THEN "null" ELSE Head(C22_Expected))

\* C22: Utils.findEntities(properties, searchRadius, filterFn) returns
\* exactly the entities the host reports inside the radius for which the
\* filter (by default candidateValue == properties[key]) holds for every key
\* of `properties`, in host order and without duplicates; an omitted or zero
\* radius means 100000 and an empty `properties` matches every entity in
\* range.
C22_FindEntitiesReturnsMatches ==
    event.op = "findEntities" =>
        /\ uResult.error = "none"
        /\ uResult.list = C22_Expected
        /\ \A i, j \in 1..Len(uResult.list) : i # j => uResult.list[i] # uResult.list[j]
        /\ uArgs.properties = <<>> =>
              Range(uResult.list) =
                  {e \in UtilEntities :
                      Distance[e] <= (IF uArgs.searchRadius.t = "undefined"
                                         \/ uArgs.searchRadius.v = "0"
                                      THEN 100000 ELSE NumberOf(uArgs.searchRadius.v))}

\* a search for { k1: 1 } with no radius and no filter found the far entity
\* u3 through its string "1", after the near entity u1
C22_Witness ==
    /\ event.op = "findEntities"
    /\ uArgs.searchRadius = JsUndefined
    /\ uArgs.filterFn = "undefined"
    /\ DOMAIN uArgs.properties = {"k1"}
    /\ uArgs.properties["k1"] = JsVal("num", "1")
    /\ uWorld["u3"]["k1"] = JsVal("str", "1")
    /\ uWorld["u2"]["k1"] = JsVal("str", "a")
    /\ uResult.list = <<"u1", "u3">>

\* C23: in spawnOrangeCube, once unload has run (and until a later preload)
\* every interval a preload started is cleared, also when preload ran more
\* than once before unload, so that no cube is added any more; and a cube is
\* added only by a tick of an interval, never before the first tick after
\* preload.
C23_NoCubeAfterUnload ==
    [][ /\ unloaded' => cubeIntervals' = {}
        /\ (unloaded /\ unloaded') => cubesAdded' = cubesAdded
        /\ cubesAdded' # cubesAdded => event'.op = "cubeTick"
        /\ event'.op = "cubePreload" => cubesAdded' = cubesAdded ]_vars

====
